---- MODULE Spec2Model ----
(***************************************************************************)
(* The pod state machine of the WASI provider: the Initializing transition *)
(* (crates/wasi-provider/src/states/pod/initializing.rs) and the Completed *)
(* transition (crates/wasi-provider/src/states/pod/completed.rs) of one    *)
(* workload, split at their suspension points (.await).                    *)
(***************************************************************************)
EXTENDS Naturals, Integers, Sequences, FiniteSets, TLC

\* Longest artifact list of an Invocation or a Result.
MaxArtifacts == 2
\* Largest number of init containers in the pod manifest.
MaxInit == 2
\* Largest number of consecutive failures the backoff strategy counts.
MaxFailures == 1
\* Snapshots that reach the pod's record stream after the first one.
MaxVersion == 1

VARIABLES
    pod,                \* local `pod`: the snapshot Initializing::next took
    configMap,          \* the ConfigMap of the pod's name in the API server
    pc,                 \* position of the pod task
    podState,           \* PodState: workflow_name, artifact_manager, ...
    pod_working_dir,    \* PodState.pod_working_dir: input, result, files
    config_map,         \* local `config_map` of Initializing::next
    invocation,         \* local `invocation` of Initializing::next
    idx,                \* position of the running for loop
    cstate,             \* state of the nested container state machine
    downloads,          \* artifacts whose download was called, in order
    started,            \* init containers whose driver was started, in order
    returned,           \* what each nested driver returned, in order
    resets,             \* the failure count each reset() call found
    initResult,         \* the Transition Initializing::next returned
    result,             \* local `result` of Completed::next
    uploaded_artifacts, \* local `uploaded_artifacts` of Completed::next
    uploads,            \* artifacts whose upload was called, in order
    patches,            \* patch requests sent to the API server, in order
    completedResult,    \* the Transition Completed::next returned
    stateSeq,           \* pod states entered so far
    terminal,           \* the workload's terminal outcome
    deleted,            \* the pod's record was deleted
    pod_rx,             \* the latest snapshot on the pod's record stream
    guard,              \* the pod task holds a read guard of provider_state
    writer,             \* another task holds the write lock of provider_state
    issued,             \* the statuses the driver published, in order
    observed,           \* the status the pod's record holds
    span,               \* tracing::Span::current() of Initializing::next
    contexts            \* the ContainerState built for each init container

vars == <<pod, configMap, config_map, pc, podState, pod_working_dir,
          invocation, idx,
          cstate, downloads, started, returned, resets, initResult, result,
          uploaded_artifacts, uploads, patches, completedResult, stateSeq,
          terminal, deleted, pod_rx, guard, writer, issued, observed, span,
          contexts>>

\* What the Completed transition reads and writes.
completedVars == <<result, uploaded_artifacts, uploads, patches,
                   completedResult, configMap>>

\* What the Initializing transition reads and writes, besides pc, podState,
\* pod_working_dir, stateSeq and terminal.
initializingVars == <<invocation, idx, cstate, downloads, started, returned,
                      resets, initResult>>

----------------------------------------------------------------------------
\* Option<T>: None is the empty sequence, Some(x) the one-element sequence.
None == <<>>
Some(x) == <<x>>

\* A JSON text holding value v, and a text that does not parse.
Json(v) == <<"json", v>>
Garbage == <<"garbage">>

\* serde_json::from_str: the value of a JSON text, an error otherwise.
from_str(s) ==
    IF s[1] = "json" THEN [ok |-> TRUE, val |-> s[2]]
    ELSE [ok |-> FALSE, val |-> None]

\* serde_json::to_string of a plain data structure.
to_string(v) == Json(v)

\* An artifact descriptor (local) of the Invocation or the Result.
Descriptor(i) == [name |-> i, remote |-> FALSE, workflow |-> ""]

\* The ArtifactRef an upload returns for descriptor a under workflow wf.
ArtifactRef(wf, a) == [name |-> a.name, remote |-> TRUE, workflow |-> wf]

ArtifactList(n) == [i \in 1..n |-> Descriptor(i)]

\* PluginInvocation: workflow_name and artifacts.
Invocations ==
    {[workflow_name |-> "wf1", artifacts |-> ArtifactList(n)] :
        n \in 0..MaxArtifacts}

\* The module result: outputs.artifacts.
Results == {[artifacts |-> ArtifactList(n)] : n \in 0..MaxArtifacts}

\* The result accessor's value when the working directory holds no result.
DefaultResult == [artifacts |-> <<>>]

\* A result an earlier run left in the record.
OldResult == [artifacts |-> <<ArtifactRef("wf0", Descriptor(0))>>]

Keys == {"opentelemetry.json", "input.json", "artifact-repo-config.json",
         "result.json"}

\* The values each ConfigMap key can hold; None is "key absent".  A ConfigMap
\* without data behaves as one whose keys are all absent.
KeyValues(k) ==
    CASE k = "opentelemetry.json" -> {None, Some(Json("trace1")), Some(Garbage)}
      [] k = "input.json" ->
            {None, Some(Garbage)} \cup {Some(Json(i)) : i \in Invocations}
      [] k = "artifact-repo-config.json" ->
            {None, Some(Garbage), Some(Json("unusable")), Some(Json("repo"))}
      [] k = "result.json" -> {None, Some(Json(OldResult))}

ConfigMaps ==
    {None} \cup
    {Some([k \in Keys |->
             CASE k = "opentelemetry.json" -> o
               [] k = "input.json" -> i
               [] k = "artifact-repo-config.json" -> r
               [] k = "result.json" -> p]) :
        o \in KeyValues("opentelemetry.json"),
        i \in KeyValues("input.json"),
        r \in KeyValues("artifact-repo-config.json"),
        p \in KeyValues("result.json")}

\* Pod manifests: init containers named 1..n, in manifest order.
Pods == {[init_containers |-> [i \in 1..n |-> i], resource_version |-> 0] :
         n \in 0..MaxInit}

\* The result file the workload can leave in the working directory.
ResultFiles == {None, Some(Garbage)} \cup {Some(Json(r)) : r \in Results}

Error(kind, at) == [kind |-> kind, at |-> at]

Next_Starting == [outcome |-> "Next", state |-> "Starting",
                  err |-> Error("", "")]
Complete_Ok == [outcome |-> "Complete", state |-> "Ok", err |-> Error("", "")]
Complete_Err(e) == [outcome |-> "Complete", state |-> "Err", err |-> e]

----------------------------------------------------------------------------
\* Backoff strategy: the state is the number of consecutive failures.
InitialDelay == 1

RECURSIVE Pow2(_)
Pow2(n) == IF n = 0 THEN 1 ELSE 2 * Pow2(n - 1)

\* The delay next_delay() yields after n consecutive failures.
NextDelay(n) == InitialDelay * Pow2(n)

reset(ps) == [ps EXCEPT !.crash_loop_backoff_strategy = 0]

----------------------------------------------------------------------------
\* make_status(phase, message)
make_status(phase, message) == [phase |-> phase, message |-> message]

\* Initializing::status
InitializingStatus == make_status("Running", "Initializing")

\* Completed::status that reports the phase of a running pod.
CompletedStatusRunning == make_status("Running", "Completed")

\* Completed::status
CompletedStatus == make_status("Succeeded", "Completed")

\* The status of the execution engine's states, told apart by name only.
EngineStatus(state) == make_status("Unknown", state)

\* state.status(..) of the pod state `state`.
StatusOf(state) ==
    CASE state = "Initializing" -> InitializingStatus
      [] state = "Completed" -> CompletedStatus
      [] OTHER -> EngineStatus(state)

Init ==
    /\ pod_rx \in Pods
    /\ pod = pod_rx
    /\ configMap \in ConfigMaps
    /\ pc = "init_entry"
    /\ podState = [workflow_name |-> None, artifact_manager |-> None,
                   parent_context |-> None, crash_loop_backoff_strategy |-> 0,
                   run_context |-> "run_context"]
    /\ pod_working_dir = [input |-> None, result |-> None, files |-> {},
                          path |-> "pod_working_dir"]
    /\ config_map = None
    /\ invocation = None
    /\ idx = 0
    /\ cstate = "None"
    /\ downloads = <<>>
    /\ started = <<>>
    /\ returned = <<>>
    /\ resets = <<>>
    /\ initResult = None
    /\ result = None
    /\ uploaded_artifacts = <<>>
    /\ uploads = <<>>
    /\ patches = <<>>
    /\ completedResult = None
    /\ stateSeq = <<"Initializing">>
    /\ terminal = "None"
    /\ deleted = FALSE
    /\ guard = FALSE
    /\ writer = FALSE
    /\ issued = <<StatusOf("Initializing")>>
    /\ observed = None
    /\ span = [name |-> "pod.initializing", parent |-> None]
    /\ contexts = <<>>

----------------------------------------------------------------------------
(* Initializing::next *)

\* api.get(pod.name()): the ConfigMap when the request succeeds, None when it
\* fails (no such record, or any request error).
GetOutcomes == {configMap, None}

\* cm.data.get(key) on the fetched Option<ConfigMap> cm
DataGet(cm, key) ==
    IF cm = None THEN None ELSE cm[1][key]

\* DecodeOpentelemetry for which a missing record is an error.
DecodeOpentelemetryRequiresRecord(cm) ==
    LET blob == DataGet(cm, "opentelemetry.json") IN
    IF cm = None THEN [ok |-> FALSE, val |-> None]
    ELSE IF blob = None THEN [ok |-> TRUE, val |-> None]
    ELSE LET r == from_str(blob[1]) IN
         IF r.ok THEN [ok |-> TRUE, val |-> Some(r.val)]
         ELSE [ok |-> FALSE, val |-> None]

\* DecodeOpentelemetry for which an undecodable blob counts as no blob.
DecodeOpentelemetryLenient(cm) ==
    LET blob == DataGet(cm, "opentelemetry.json") IN
    IF blob = None THEN [ok |-> TRUE, val |-> None]
    ELSE LET r == from_str(blob[1]) IN
         IF r.ok THEN [ok |-> TRUE, val |-> Some(r.val)]
         ELSE [ok |-> TRUE, val |-> None]

\* The `opentelemetry` value: the decoded context when the blob is present.
DecodeOpentelemetry(cm) ==
    LET blob == DataGet(cm, "opentelemetry.json") IN
    IF blob = None THEN [ok |-> TRUE, val |-> None]
    ELSE LET r == from_str(blob[1]) IN
         IF r.ok THEN [ok |-> TRUE, val |-> Some(r.val)]
         ELSE [ok |-> FALSE, val |-> None]

\* DeserializeInvocation that takes an undecodable payload for no payload.
DeserializeInvocationLenient(cm) ==
    LET input_json == DataGet(cm, "input.json") IN
    IF input_json = None THEN [ok |-> TRUE, val |-> None]
    ELSE LET r == from_str(input_json[1]) IN
         IF r.ok THEN [ok |-> TRUE, val |-> Some(r.val)]
         ELSE [ok |-> TRUE, val |-> None]

\* The `invocation` value: the deserialized input payload when it is present.
DeserializeInvocation(cm) ==
    LET input_json == DataGet(cm, "input.json") IN
    IF input_json = None THEN [ok |-> TRUE, val |-> None]
    ELSE LET r == from_str(input_json[1]) IN
         IF r.ok THEN [ok |-> TRUE, val |-> Some(r.val)]
         ELSE [ok |-> FALSE, val |-> None]

\* ArtifactManager::try_new on a parsed repository configuration.
try_new(cfg) ==
    IF cfg = "repo" THEN [ok |-> TRUE, val |-> Some([repo |-> cfg])]
    ELSE [ok |-> FALSE, val |-> None]

\* MakeArtifactManager for which a missing repository configuration is an
\* error.
MakeArtifactManagerStrict(cm) ==
    LET input_json == DataGet(cm, "artifact-repo-config.json") IN
    IF input_json = None
    THEN [ok |-> FALSE, val |-> None,
          err |-> Error("ArtifactConfigError", "artifact-repo-config.json")]
    ELSE LET r == from_str(input_json[1]) IN
         IF ~r.ok
         THEN [ok |-> FALSE, val |-> None,
               err |-> Error("DeserializationError",
                             "artifact-repo-config.json")]
         ELSE LET m == try_new(r.val) IN
              IF m.ok THEN [ok |-> TRUE, val |-> m.val, err |-> Error("", "")]
              ELSE [ok |-> FALSE, val |-> None,
                    err |-> Error("ArtifactConfigError",
                                  "artifact-repo-config.json")]

\* MakeArtifactManager for which an unusable repository configuration is
\* treated like a missing one.
MakeArtifactManagerLenient(cm) ==
    LET input_json == DataGet(cm, "artifact-repo-config.json") IN
    IF input_json = None
    THEN [ok |-> TRUE, val |-> None, err |-> Error("", "")]
    ELSE LET r == from_str(input_json[1]) IN
         IF ~r.ok
         THEN [ok |-> TRUE, val |-> None, err |-> Error("", "")]
         ELSE LET m == try_new(r.val) IN
              IF m.ok THEN [ok |-> TRUE, val |-> m.val, err |-> Error("", "")]
              ELSE [ok |-> TRUE, val |-> None, err |-> Error("", "")]

\* The value assigned to pod_state.artifact_manager.
MakeArtifactManager(cm) ==
    LET input_json == DataGet(cm, "artifact-repo-config.json") IN
    IF input_json = None
    THEN [ok |-> TRUE, val |-> None, err |-> Error("", "")]
    ELSE LET r == from_str(input_json[1]) IN
         IF ~r.ok
         THEN [ok |-> FALSE, val |-> None,
               err |-> Error("DeserializationError",
                             "artifact-repo-config.json")]
         ELSE LET m == try_new(r.val) IN
              IF m.ok THEN [ok |-> TRUE, val |-> m.val, err |-> Error("", "")]
              ELSE [ok |-> FALSE, val |-> None,
                    err |-> Error("ArtifactConfigError",
                                  "artifact-repo-config.json")]

\* ContainerKey::Init(name)
ContainerKey_Init(name) == <<"Init", name>>

\* ContainerState::new
ContainerState(p, container_key, run_context, working_dir, parent_span) ==
    [pod |-> p, container_key |-> container_key,
     run_context |-> run_context, pod_working_dir |-> working_dir,
     parent_span |-> parent_span]

\* The propagator's extract: the remote context the decoded map describes.
extract(opentelemetry) == [trace |-> opentelemetry, span |-> "remote"]

\* Span::set_parent
set_parent(sp, cx) == [sp EXCEPT !.parent = Some(cx)]

\* Span::context: the span's own context, in the trace of its parent when it
\* has one.
context(sp) ==
    [trace |-> IF sp.parent = None THEN "local" ELSE sp.parent[1].trace,
     span |-> sp.name]

\* return Transition::Complete(Err(e)) from Initializing::next: the pod state
\* machine ends in Error.
InitFail(ps, wd, inv, e) ==
    /\ pc' = "done"
    /\ podState' = ps
    /\ pod_working_dir' = wd
    /\ invocation' = inv
    /\ initResult' = Some(Complete_Err(e))
    /\ cstate' = "None"
    /\ stateSeq' = Append(stateSeq, "Error")
    /\ terminal' = "Failed"
    /\ UNCHANGED <<idx, downloads, started, resets, issued, contexts>>

\* One turn of the download loop: artifact_manager.download(..).await of the
\* k-th artifact of the Invocation is called.
StartDownload(ps, wd, inv, k) ==
    /\ pc' = "init_download"
    /\ podState' = ps
    /\ pod_working_dir' = wd
    /\ invocation' = inv
    /\ idx' = k
    /\ downloads' = Append(downloads, inv[1].artifacts[k])
    /\ UNCHANGED <<cstate, started, resets, initResult, stateSeq, terminal,
                   issued, contexts>>

\* InitLoop without the reset that follows the last init container.
InitLoopNoFinalReset(ps, wd, inv, k) ==
    /\ pod_working_dir' = wd
    /\ invocation' = inv
    /\ UNCHANGED <<downloads, terminal>>
    /\ IF k <= Len(pod.init_containers)
       THEN /\ podState' = reset(ps)
            /\ resets' = Append(resets, ps.crash_loop_backoff_strategy)
            /\ pc' = "init_wait"
            /\ idx' = k
            /\ cstate' = "Waiting"
            /\ started' = Append(started, pod.init_containers[k])
            /\ contexts' = Append(contexts,
                  ContainerState(pod,
                                 ContainerKey_Init(pod.init_containers[k]),
                                 ps.run_context, wd.path, span'))
            /\ UNCHANGED <<initResult, stateSeq, issued>>
       ELSE /\ podState' = ps
            /\ pc' = "starting"
            /\ idx' = 0
            /\ cstate' = "None"
            /\ initResult' = Some(Next_Starting)
            /\ stateSeq' = Append(stateSeq, "Starting")
            /\ issued' = Append(issued, StatusOf("Starting"))
            /\ UNCHANGED <<started, resets, contexts>>

\* The init container loop from its k-th turn: reset the backoff and run the
\* container's driver, or, after the last container, reset the backoff and
\* return Transition::next(self, Starting).
InitLoop(ps, wd, inv, k) ==
    /\ podState' = reset(ps)
    /\ pod_working_dir' = wd
    /\ invocation' = inv
    /\ resets' = Append(resets, ps.crash_loop_backoff_strategy)
    /\ UNCHANGED <<downloads, terminal>>
    /\ IF k <= Len(pod.init_containers)
       THEN /\ pc' = "init_wait"
            /\ idx' = k
            /\ cstate' = "Waiting"
            /\ started' = Append(started, pod.init_containers[k])
            /\ contexts' = Append(contexts,
                  ContainerState(pod,
                                 ContainerKey_Init(pod.init_containers[k]),
                                 ps.run_context, wd.path, span'))
            /\ UNCHANGED <<initResult, stateSeq, issued>>
       ELSE /\ pc' = "starting"
            /\ idx' = 0
            /\ cstate' = "None"
            /\ initResult' = Some(Next_Starting)
            /\ stateSeq' = Append(stateSeq, "Starting")
            /\ issued' = Append(issued, StatusOf("Starting"))
            /\ UNCHANGED <<started, contexts>>

\* Lines 43-49: take the latest snapshot of the stream, then
\* provider_state.read().await returns the read guard.
InitializingLock ==
    /\ pc = "init_entry"
    /\ ~writer
    /\ pc' = "init_client"
    /\ pod' = pod_rx
    /\ guard' = TRUE
    /\ UNCHANGED <<writer, issued, observed, pod_rx, span,
                   contexts>>
    /\ UNCHANGED <<config_map, podState, pod_working_dir, stateSeq, terminal,
                   deleted>>
    /\ UNCHANGED initializingVars
    /\ UNCHANGED completedVars

\* InitializingFetch that keeps the read guard while api.get is awaited.
InitializingFetchKeepsGuard ==
    /\ pc = "init_client"
    /\ pc' = "init_fetch"
    /\ UNCHANGED <<guard, writer, issued, observed, pod_rx, span,
                   contexts>>
    /\ UNCHANGED <<pod, config_map, podState, pod_working_dir, stateSeq, terminal,
                   deleted>>
    /\ UNCHANGED initializingVars
    /\ UNCHANGED completedVars

\* Lines 50-55: copy the client, drop the read guard at the end of the
\* block, then api.get(..).await.
InitializingFetch ==
    /\ pc = "init_client"
    /\ pc' = "init_fetch"
    /\ guard' = FALSE
    /\ UNCHANGED <<writer, issued, observed, pod_rx, span,
                   contexts>>
    /\ UNCHANGED <<pod, config_map, podState, pod_working_dir, stateSeq, terminal, deleted>>
    /\ UNCHANGED initializingVars
    /\ UNCHANGED completedVars

\* Lines 72-76: adopt the decoded telemetry context as parent.
AdoptParentContext(ps, opentelemetry) ==
    IF opentelemetry # None
    THEN [ps EXCEPT !.parent_context =
              Some(context(set_parent(span, extract(opentelemetry[1]))))]
    ELSE ps

\* RecordWorkflowName that leaves the workflow name unset.
RecordWorkflowNameSkipped(ps, inv) == ps

\* Line 95: pod_state.workflow_name = Some(invocation.workflow_name)
RecordWorkflowName(ps, inv) ==
    [ps EXCEPT !.workflow_name = Some(inv.workflow_name)]

\* Line 96: pod_working_dir.set_input(&invocation) writes input.json.
set_input(wd, inv) == [wd EXCEPT !.input = Some(to_string(inv))]

\* InitializingConfig that constructs the artifact manager whether or not
\* the Invocation declares artifacts.
InitializingConfigEagerManager(cm, io_ok) ==
    /\ pc = "init_fetch"
    /\ span' = IF DecodeOpentelemetry(cm).ok /\ DecodeOpentelemetry(cm).val # None
               THEN set_parent(span, extract(DecodeOpentelemetry(cm).val[1]))
               ELSE span
    /\ LET otel == DecodeOpentelemetry(cm)
           ps1 == AdoptParentContext(podState, otel.val)
           inv == DeserializeInvocation(cm)
           ps2 == RecordWorkflowName(ps1, inv.val[1])
           wd2 == set_input(pod_working_dir, inv.val[1])
           am == MakeArtifactManager(cm)
           ps3 == [ps2 EXCEPT !.artifact_manager = am.val]
       IN
       IF ~otel.ok
       THEN InitFail(podState, pod_working_dir, None,
                     Error("DeserializationError", "opentelemetry.json"))
       ELSE IF ~inv.ok
       THEN InitFail(ps1, pod_working_dir, None,
                     Error("DeserializationError", "input.json"))
       ELSE IF inv.val = None
       THEN InitLoop(ps1, pod_working_dir, None, 1)
       ELSE IF ~io_ok
       THEN InitFail(ps2, pod_working_dir, inv.val,
                     Error("WorkingDirectoryIOError", "input.json"))
       ELSE IF Len(inv.val[1].artifacts) = 0
       THEN InitLoop(IF am.ok THEN ps3 ELSE ps2, wd2, inv.val, 1)
       ELSE IF ~am.ok
       THEN InitFail(ps2, wd2, inv.val, am.err)
       ELSE IF am.val # None
       THEN StartDownload(ps3, wd2, inv.val, 1)
       ELSE InitLoop(ps3, wd2, inv.val, 1)
    /\ config_map' = cm
    /\ UNCHANGED <<guard, writer, observed, pod_rx>>
    /\ UNCHANGED <<pod, returned, deleted>>
    /\ UNCHANGED completedVars

\* Lines 55-131, from the answer of api.get to the first download, the first
\* init container or the failure.  io_ok: whether set_input succeeds.
InitializingConfig(cm, io_ok) ==
    /\ pc = "init_fetch"
    /\ span' = IF DecodeOpentelemetry(cm).ok /\ DecodeOpentelemetry(cm).val # None
               THEN set_parent(span, extract(DecodeOpentelemetry(cm).val[1]))
               ELSE span
    /\ LET otel == DecodeOpentelemetry(cm)
           ps1 == AdoptParentContext(podState, otel.val)
           inv == DeserializeInvocation(cm)
           ps2 == RecordWorkflowName(ps1, inv.val[1])
           wd2 == set_input(pod_working_dir, inv.val[1])
           am == MakeArtifactManager(cm)
           ps3 == [ps2 EXCEPT !.artifact_manager = am.val]
       IN
       IF ~otel.ok
       THEN InitFail(podState, pod_working_dir, None,
                     Error("DeserializationError", "opentelemetry.json"))
       ELSE IF ~inv.ok
       THEN InitFail(ps1, pod_working_dir, None,
                     Error("DeserializationError", "input.json"))
       ELSE IF inv.val = None
       THEN InitLoop(ps1, pod_working_dir, None, 1)
       ELSE IF ~io_ok
       THEN InitFail(ps2, pod_working_dir, inv.val,
                     Error("WorkingDirectoryIOError", "input.json"))
       ELSE IF Len(inv.val[1].artifacts) = 0
       THEN InitLoop(ps2, wd2, inv.val, 1)
       ELSE IF ~am.ok
       THEN InitFail(ps2, wd2, inv.val, am.err)
       ELSE IF am.val # None
       THEN StartDownload(ps3, wd2, inv.val, 1)
       ELSE InitLoop(ps3, wd2, inv.val, 1)
    /\ config_map' = cm
    /\ UNCHANGED <<guard, writer, observed, pod_rx>>
    /\ UNCHANGED <<pod, returned, deleted>>
    /\ UNCHANGED completedVars

\* DownloadReturn with the download's failure ignored: the loop goes on.
DownloadReturnIgnoresFailure(ok) ==
    /\ pc = "init_download"
    /\ UNCHANGED <<guard, writer, observed, pod_rx, span>>
    /\ LET a == invocation[1].artifacts[idx]
           wd == IF ok
                 THEN [pod_working_dir EXCEPT !.files = @ \cup {a.name}]
                 ELSE pod_working_dir
       IN
       IF idx < Len(invocation[1].artifacts)
       THEN StartDownload(podState, wd, invocation, idx + 1)
       ELSE InitLoop(podState, wd, invocation, 1)
    /\ UNCHANGED <<pod, config_map, returned, deleted>>
    /\ UNCHANGED completedVars

\* Lines 121-125: the awaited download returns.
DownloadReturn(ok) ==
    /\ pc = "init_download"
    /\ UNCHANGED <<guard, writer, observed, pod_rx, span>>
    /\ LET a == invocation[1].artifacts[idx]
           wd == [pod_working_dir EXCEPT !.files = @ \cup {a.name}]
       IN
       IF ~ok
       THEN InitFail(podState, pod_working_dir, invocation,
                     Error("ArtifactTransferError", "download"))
       ELSE IF idx < Len(invocation[1].artifacts)
       THEN StartDownload(podState, wd, invocation, idx + 1)
       ELSE InitLoop(podState, wd, invocation, 1)
    /\ UNCHANGED <<pod, config_map, returned, deleted>>
    /\ UNCHANGED completedVars

\* The nested driver moves its container from Waiting to Running.
ContainerRun ==
    /\ pc = "init_wait"
    /\ cstate = "Waiting"
    /\ cstate' = "Running"
    /\ UNCHANGED <<guard, writer, issued, observed, pod_rx, span,
                   contexts>>
    /\ UNCHANGED <<pod, config_map, pc, podState, pod_working_dir, stateSeq, terminal,
                   deleted, invocation, idx, downloads, started, returned,
                   resets, initResult>>
    /\ UNCHANGED completedVars

\* Retry pacing while a container runs: next_delay() counts one more failure.
ContainerBackoff ==
    /\ pc = "init_wait"
    /\ cstate = "Running"
    /\ podState.crash_loop_backoff_strategy < MaxFailures
    /\ podState' = [podState EXCEPT !.crash_loop_backoff_strategy = @ + 1]
    /\ UNCHANGED <<guard, writer, issued, observed, pod_rx, span,
                   contexts>>
    /\ UNCHANGED <<pod, config_map, pc, pod_working_dir, stateSeq, terminal, deleted>>
    /\ UNCHANGED initializingVars
    /\ UNCHANGED completedVars

\* InitStepReturn with the driver's failure ignored: the loop goes on.
InitStepReturnIgnoresFailure(ok) ==
    /\ pc = "init_wait"
    /\ cstate = "Running"
    /\ UNCHANGED <<guard, writer, observed, pod_rx, span>>
    /\ returned' = Append(returned, [name |-> pod.init_containers[idx],
                                     ok |-> ok])
    /\ InitLoop(podState, pod_working_dir, invocation, idx + 1)
    /\ UNCHANGED <<pod, config_map, deleted>>
    /\ UNCHANGED completedVars

\* Lines 153-176: run_to_completion(..).await returns for the idx-th init
\* container.
InitStepReturn(ok) ==
    /\ pc = "init_wait"
    /\ cstate = "Running"
    /\ UNCHANGED <<guard, writer, observed, pod_rx, span>>
    /\ returned' = Append(returned, [name |-> pod.init_containers[idx],
                                     ok |-> ok])
    /\ IF ok
       THEN InitLoop(podState, pod_working_dir, invocation, idx + 1)
       ELSE InitFail(podState, pod_working_dir, invocation,
                     Error("InitContainerFailed", pod.init_containers[idx]))
    /\ UNCHANGED <<pod, config_map, deleted>>
    /\ UNCHANGED completedVars

----------------------------------------------------------------------------
(* Starting and Running: the execution engine, which drives the workload   *)
(* into Completed or Error.                                                *)

StartingNext ==
    /\ pc = "starting"
    /\ pc' = "running"
    /\ stateSeq' = Append(stateSeq, "Running")
    /\ issued' = Append(issued, StatusOf("Running"))
    /\ UNCHANGED <<guard, writer, observed, pod_rx, span, contexts>>
    /\ UNCHANGED <<pod, config_map, podState, pod_working_dir, terminal, deleted>>
    /\ UNCHANGED initializingVars
    /\ UNCHANGED completedVars

\* The workload ends and leaves result file f in the working directory.
RunningCompleted(f) ==
    /\ pc = "running"
    /\ pc' = "completed_entry"
    /\ pod_working_dir' = [pod_working_dir EXCEPT !.result = f]
    /\ stateSeq' = Append(stateSeq, "Completed")
    /\ issued' = Append(issued, StatusOf("Completed"))
    /\ UNCHANGED <<guard, writer, observed, pod_rx, span, contexts>>
    /\ UNCHANGED <<pod, config_map, podState, terminal, deleted>>
    /\ UNCHANGED initializingVars
    /\ UNCHANGED completedVars

RunningError ==
    /\ pc = "running"
    /\ pc' = "done"
    /\ stateSeq' = Append(stateSeq, "Error")
    /\ terminal' = "Failed"
    /\ UNCHANGED <<guard, writer, issued, observed, pod_rx, span,
                   contexts>>
    /\ UNCHANGED <<pod, config_map, podState, pod_working_dir, deleted>>
    /\ UNCHANGED initializingVars
    /\ UNCHANGED completedVars

----------------------------------------------------------------------------
(* Completed::next *)

\* pod_working_dir.result(): the parsed result file.  Completed::next only
\* sees the accessor's return type, so for a missing file both values the
\* type allows are kept: an error and a default Result.
ResultOutcomes(f) ==
    IF f = None
    THEN {[ok |-> FALSE, val |-> DefaultResult],
          [ok |-> TRUE, val |-> DefaultResult]}
    ELSE LET r == from_str(f[1]) IN
         IF r.ok THEN {[ok |-> TRUE, val |-> r.val]}
         ELSE {[ok |-> FALSE, val |-> DefaultResult]}

\* ReplacePatch that points at the input payload.
ReplacePatchWrongPath(serialized) ==
    [op |-> "replace", path |-> <<"data", "input.json">>,
     value |-> serialized]

\* The json_patch::Patch of lines 60-68 for the serialized result.  The
\* path "/data/result.json" is kept as its JSON Pointer reference tokens.
ReplacePatch(serialized) ==
    [op |-> "replace", path |-> <<"data", "result.json">>,
     value |-> serialized]

\* The API server applies a JSON patch "replace" to the ConfigMap: the record
\* and the target location must exist (RFC 6902, 4.3).
ApplyPatch(cm, patch) ==
    IF cm = None THEN [ok |-> FALSE, val |-> cm]
    ELSE IF Len(patch.path) # 2 \/ patch.path[1] # "data"
    THEN [ok |-> FALSE, val |-> cm]
    ELSE IF patch.path[2] \notin Keys THEN [ok |-> FALSE, val |-> cm]
    ELSE IF cm[1][patch.path[2]] = None THEN [ok |-> FALSE, val |-> cm]
    ELSE [ok |-> TRUE,
          val |-> Some([cm[1] EXCEPT ![patch.path[2]] = Some(patch.value)])]

\* return Transition::Complete(Err(e)) from Completed::next.
CompletedFail(res, e) ==
    /\ pc' = "done"
    /\ result' = res
    /\ completedResult' = Some(Complete_Err(e))
    /\ terminal' = "Failed"
    /\ UNCHANGED <<uploads, uploaded_artifacts, patches, idx, configMap>>

\* One turn of the upload loop: artifact_manager.upload(..).await of the k-th
\* artifact of the result is called.
StartUpload(res, refs, k) ==
    /\ pc' = "completed_upload"
    /\ result' = Some(res)
    /\ uploaded_artifacts' = refs
    /\ idx' = k
    /\ uploads' = Append(uploads, res.artifacts[k])
    /\ UNCHANGED <<patches, completedResult, terminal, configMap>>

\* Lines 46-52: the result is final; provider_state.read().await is called.
AwaitClient(res, refs) ==
    /\ pc' = "completed_lock"
    /\ result' = Some(res)
    /\ uploaded_artifacts' = refs
    /\ UNCHANGED <<uploads, idx, patches, completedResult, terminal, configMap>>

\* DroppedArtifacts that forgets to clear the list.
DroppedArtifactsKept(res) == res

\* The artifact list lines 30-34 leave in the result when the artifact
\* manager or the workflow name is missing.
DroppedArtifacts(res) == [res EXCEPT !.artifacts = <<>>]

\* Lines 25-46, from the read of the result to the first upload, the patch
\* or the failure.
CompletedRead(r) ==
    /\ pc = "completed_entry"
    /\ IF ~r.ok
       THEN CompletedFail(None, Error("WorkingDirectoryIOError",
                                      "result.json"))
       ELSE IF Len(r.val.artifacts) > 0
       THEN IF \/ podState.artifact_manager = None
               \/ podState.workflow_name = None
            THEN AwaitClient(DroppedArtifacts(r.val), <<>>)
            ELSE StartUpload(r.val, <<>>, 1)
       ELSE AwaitClient(r.val, <<>>)
    /\ UNCHANGED <<guard, writer, issued, observed, pod_rx, span,
                   contexts>>
    /\ UNCHANGED <<pod, config_map, podState, pod_working_dir, stateSeq, deleted,
                   invocation, cstate, downloads, started, returned, resets,
                   initResult>>

\* UploadedResult that leaves the local descriptors in the result.
UploadedResultKeepsDescriptors(res, refs) == res

\* The result after the upload loop: its artifacts are the uploaded refs.
UploadedResult(res, refs) == [res EXCEPT !.artifacts = refs]

\* Lines 37-44: the awaited upload returns.
UploadReturn(ok) ==
    /\ pc = "completed_upload"
    /\ LET a == result[1].artifacts[idx]
           refs == Append(uploaded_artifacts,
                          ArtifactRef(podState.workflow_name[1], a))
       IN
       IF ~ok
       THEN CompletedFail(result, Error("ArtifactTransferError", "upload"))
       ELSE IF idx < Len(result[1].artifacts)
       THEN StartUpload(result[1], refs, idx + 1)
       ELSE AwaitClient(UploadedResult(result[1], refs), refs)
    /\ UNCHANGED <<guard, writer, issued, observed, pod_rx, span,
                   contexts>>
    /\ UNCHANGED <<pod, config_map, podState, pod_working_dir, stateSeq, deleted,
                   invocation, cstate, downloads, started, returned, resets,
                   initResult>>

\* Line 52: provider_state.read().await returns the read guard.
CompletedLock ==
    /\ pc = "completed_lock"
    /\ ~writer
    /\ pc' = "completed_client"
    /\ guard' = TRUE
    /\ UNCHANGED <<writer, issued, observed, pod_rx, span,
                   contexts>>
    /\ UNCHANGED <<pod, config_map, podState, pod_working_dir, stateSeq, terminal,
                   deleted>>
    /\ UNCHANGED initializingVars
    /\ UNCHANGED completedVars

\* Lines 47-70: serialize the result, copy the client and drop the read
\* guard at the end of the block, build the replace patch and call
\* api.patch(..).await.
IssuePatch ==
    /\ pc = "completed_client"
    /\ pc' = "completed_patch"
    /\ guard' = FALSE
    /\ patches' = Append(patches, ReplacePatch(to_string(result[1])))
    /\ UNCHANGED <<writer, issued, observed, pod_rx, span,
                   contexts>>
    /\ UNCHANGED <<pod, config_map, podState, pod_working_dir, stateSeq, terminal,
                   deleted>>
    /\ UNCHANGED initializingVars
    /\ UNCHANGED <<result, uploaded_artifacts, uploads, completedResult,
                   configMap>>

\* PatchReturn that takes a failed patch request for a success.
PatchReturnIgnoresFailure(request_ok) ==
    /\ pc = "completed_patch"
    /\ LET applied == ApplyPatch(configMap, patches[Len(patches)]) IN
       /\ pc' = "done"
       /\ configMap' = IF request_ok THEN applied.val ELSE configMap
       /\ completedResult' = Some(Complete_Ok)
       /\ terminal' = "Succeeded"
       /\ UNCHANGED <<result, uploads, uploaded_artifacts, patches, idx>>
    /\ UNCHANGED <<guard, writer, issued, observed, pod_rx, span,
                   contexts>>
    /\ UNCHANGED <<pod, config_map, podState, pod_working_dir, stateSeq, deleted,
                   invocation, cstate, downloads, started, returned, resets,
                   initResult>>

\* Lines 69-76: the awaited patch request returns.  request_ok: whether the
\* request reaches the API server; the error tells a request that did not
\* from a patch the server rejected.
PatchReturn(request_ok) ==
    /\ pc = "completed_patch"
    /\ LET applied == ApplyPatch(configMap, patches[Len(patches)]) IN
       IF request_ok /\ applied.ok
       THEN /\ pc' = "done"
            /\ configMap' = applied.val
            /\ completedResult' = Some(Complete_Ok)
            /\ terminal' = "Succeeded"
            /\ UNCHANGED <<result, uploads, uploaded_artifacts, patches, idx>>
       ELSE CompletedFail(result,
                          Error("PatchError",
                                IF request_ok THEN "rejected" ELSE "request"))
    /\ UNCHANGED <<guard, writer, issued, observed, pod_rx, span,
                   contexts>>
    /\ UNCHANGED <<pod, config_map, podState, pod_working_dir, stateSeq, deleted,
                   invocation, cstate, downloads, started, returned, resets,
                   initResult>>

----------------------------------------------------------------------------
(* The driver's status publish, the other tasks of the node and the       *)
(* record stream.                                                         *)

\* Another task of the node takes the write lock of provider_state.
WriterAcquire ==
    /\ ~guard
    /\ ~writer
    /\ writer' = TRUE
    /\ UNCHANGED <<guard, issued, observed, pod_rx, span, contexts>>
    /\ UNCHANGED <<pod, config_map, pc, podState, pod_working_dir, stateSeq,
                   terminal, deleted>>
    /\ UNCHANGED initializingVars
    /\ UNCHANGED completedVars

\* The other task drops the write lock.
WriterRelease ==
    /\ writer
    /\ writer' = FALSE
    /\ UNCHANGED <<guard, issued, observed, pod_rx, span, contexts>>
    /\ UNCHANGED <<pod, config_map, pc, podState, pod_working_dir, stateSeq,
                   terminal, deleted>>
    /\ UNCHANGED initializingVars
    /\ UNCHANGED completedVars

\* The API server applies the driver's last status publish to the record; a
\* publish that fails is never applied.
StatusApplied ==
    /\ observed # Some(issued[Len(issued)])
    /\ observed' = Some(issued[Len(issued)])
    /\ UNCHANGED <<guard, writer, issued, pod_rx, span, contexts>>
    /\ UNCHANGED <<pod, config_map, pc, podState, pod_working_dir, stateSeq,
                   terminal, deleted>>
    /\ UNCHANGED initializingVars
    /\ UNCHANGED completedVars

\* A new snapshot of the pod reaches the record stream.
UpdatePod ==
    /\ pc # "done"
    /\ pod_rx.resource_version < MaxVersion
    /\ pod_rx' = [pod_rx EXCEPT !.resource_version = @ + 1]
    /\ UNCHANGED <<guard, writer, issued, observed, span, contexts>>
    /\ UNCHANGED <<pod, config_map, pc, podState, pod_working_dir, stateSeq,
                   terminal, deleted>>
    /\ UNCHANGED initializingVars
    /\ UNCHANGED completedVars

----------------------------------------------------------------------------
(* The record stream: deletion of the pod, and the driver's reaction.      *)

Delete ==
    /\ ~deleted
    /\ pc # "done"
    /\ deleted' = TRUE
    /\ UNCHANGED <<guard, writer, issued, observed, pod_rx, span,
                   contexts>>
    /\ UNCHANGED <<pod, config_map, pc, podState, pod_working_dir, stateSeq, terminal>>
    /\ UNCHANGED initializingVars
    /\ UNCHANGED completedVars

\* DriverCancel that looks at the record stream only between transitions:
\* a transition that is awaiting is never dropped.
DriverCancelBetweenTransitions(outcome) ==
    /\ deleted
    /\ pc \in {"init_entry", "starting", "running", "completed_entry"}
    /\ pc' = "done"
    /\ cstate' = "None"
    /\ terminal' = outcome
    /\ guard' = FALSE
    /\ UNCHANGED <<writer, issued, observed, pod_rx, span,
                   contexts>>
    /\ UNCHANGED <<pod, config_map, podState, pod_working_dir, stateSeq,
                   deleted, invocation, idx, downloads, started, returned,
                   resets, initResult>>
    /\ UNCHANGED completedVars

\* The driver drops the running transition and completes the workload.
DriverCancel(outcome) ==
    /\ deleted
    /\ pc # "done"
    /\ pc' = "done"
    /\ cstate' = "None"
    /\ terminal' = outcome
    /\ guard' = FALSE
    /\ UNCHANGED <<writer, issued, observed, pod_rx, span,
                   contexts>>
    /\ UNCHANGED <<pod, config_map, podState, pod_working_dir, stateSeq, deleted,
                   invocation, idx, downloads, started, returned, resets,
                   initResult>>
    /\ UNCHANGED completedVars

----------------------------------------------------------------------------
Next ==
    \/ InitializingLock
    \/ InitializingFetch
    \/ \E cm \in GetOutcomes, io_ok \in BOOLEAN : InitializingConfig(cm, io_ok)
    \/ \E ok \in BOOLEAN : DownloadReturn(ok)
    \/ ContainerRun
    \/ ContainerBackoff
    \/ \E ok \in BOOLEAN : InitStepReturn(ok)
    \/ StartingNext
    \/ \E f \in ResultFiles : RunningCompleted(f)
    \/ RunningError
    \/ \E r \in ResultOutcomes(pod_working_dir.result) : CompletedRead(r)
    \/ \E ok \in BOOLEAN : UploadReturn(ok)
    \/ CompletedLock
    \/ IssuePatch
    \/ \E request_ok \in BOOLEAN : PatchReturn(request_ok)

Spec == Init /\ [][Next]_vars

\* With other tasks of the node taking the write lock of provider_state.
NextLock ==
    \/ Next
    \/ WriterAcquire
    \/ WriterRelease

LockSpec == Init /\ [][NextLock]_vars

\* With the API server applying status publishes.
NextObserver ==
    \/ Next
    \/ StatusApplied

ObserverSpec == Init /\ [][NextObserver]_vars

\* With new snapshots of the pod reaching the record stream.
NextStream ==
    \/ Next
    \/ UpdatePod

StreamSpec == Init /\ [][NextStream]_vars

\* With deletion of the record.  The driver's reaction to a deletion is not
\* delayed forever.
NextDeleted ==
    \/ Next
    \/ Delete
    \/ \E outcome \in {"Succeeded", "Failed"} : DriverCancel(outcome)

FairSpec ==
    /\ Init
    /\ [][NextDeleted]_vars
    /\ WF_vars(\E outcome \in {"Succeeded", "Failed"} : DriverCancel(outcome))

----------------------------------------------------------------------------
(* Properties *)

IsPrefix(s, t) == Len(s) <= Len(t) /\ s = SubSeq(t, 1, Len(s))

\* The err of a finished transition t (an Option of a Transition).
ErrKind(t) == IF t = None THEN "" ELSE t[1].err.kind

\* C1: init steps run in manifest order and one at a time: the driver of
\* step k+1 is started only after the driver of step k returned (success),
\* and once the driver of step i returns failure no later step is started
\* and Initializing completes with an error naming step i, the workload
\* ending in Error.
C1_InitStepsSequential ==
    /\ IsPrefix(started, pod.init_containers)
    /\ Len(returned) <= Len(started)
    /\ Len(started) <= Len(returned) + 1
    /\ (Len(started) = Len(returned) + 1) <=> (cstate \in {"Waiting", "Running"})
    /\ \A i \in 1..Len(returned) :
          /\ returned[i].name = started[i]
          /\ i < Len(started) => returned[i].ok
          /\ ~returned[i].ok =>
                /\ Len(started) = i
                /\ pc = "done"
                /\ initResult = Some(Complete_Err(
                       Error("InitContainerFailed", pod.init_containers[i])))
                /\ stateSeq = <<"Initializing", "Error">>
                /\ terminal = "Failed"

\* C1 witness: of two init steps the first one fails.
C1_Witness ==
    /\ Len(pod.init_containers) = 2
    /\ Len(returned) = 1
    /\ ~returned[1].ok
    /\ started = <<pod.init_containers[1]>>
    /\ pc = "done"

\* The pod states entered so far are pairwise distinct.
Acyclic ==
    \A i, j \in 1..Len(stateSeq) : i # j => stateSeq[i] # stateSeq[j]

\* The workload has ended if and only if it has one terminal outcome.
OneTerminalOutcome ==
    /\ terminal \in {"None", "Succeeded", "Failed"}
    /\ (pc = "done") <=> (terminal \in {"Succeeded", "Failed"})

CompletedDone == pc = "done" /\ completedResult # None

\* Completed::next is past the read of the result file.
CompletedPastRead ==
    \/ pc \in {"completed_upload", "completed_lock", "completed_client",
              "completed_patch"}
    \/ CompletedDone

\* The result file holds a Result that declares at least one artifact.
ResultDeclaresArtifacts ==
    /\ pod_working_dir.result # None
    /\ from_str(pod_working_dir.result[1]).ok
    /\ Len(from_str(pod_working_dir.result[1]).val.artifacts) > 0

DeclaredArtifacts == from_str(pod_working_dir.result[1]).val.artifacts

\* C3: with no result.json in the working directory Completed still reports
\* Succeeded and applies no patch; a present but corrupt file is fatal.
C3_NoResultSucceedsWithoutPatch ==
    /\ (CompletedDone /\ pod_working_dir.result = None) =>
            /\ completedResult = Some(Complete_Ok)
            /\ terminal = "Succeeded"
            /\ patches = <<>>
    /\ (CompletedDone /\ pod_working_dir.result = Some(Garbage)) =>
            /\ ErrKind(completedResult) = "WorkingDirectoryIOError"
            /\ terminal = "Failed"

RefsOf(ds) ==
    [i \in 1..Len(ds) |-> ArtifactRef(podState.workflow_name[1], ds[i])]

\* C5: with an artifact manager and a workflow name, Completed uploads the
\* Result's artifacts one at a time in list order; once all are uploaded the
\* one patch holds exactly the returned references, as many and in the same
\* order as the descriptors; at the first failed upload no later artifact is
\* uploaded, no patch is sent, the transition completes with failure and the
\* references already returned stay as they are.
C5_UploadsSequential ==
    (/\ CompletedPastRead
     /\ ResultDeclaresArtifacts
     /\ podState.artifact_manager # None
     /\ podState.workflow_name # None)
    => /\ IsPrefix(uploads, DeclaredArtifacts)
       /\ uploads # <<>>
       /\ IsPrefix(uploaded_artifacts, RefsOf(uploads))
       /\ Len(uploads) <= Len(uploaded_artifacts) + 1
       /\ pc = "completed_upload" =>
            /\ Len(uploads) = Len(uploaded_artifacts) + 1
            /\ patches = <<>>
       /\ patches # <<>> =>
            /\ uploads = DeclaredArtifacts
            /\ uploaded_artifacts = RefsOf(DeclaredArtifacts)
            /\ patches = <<ReplacePatch(to_string(
                   [artifacts |-> uploaded_artifacts]))>>
            /\ Len(from_str(patches[1].value).val.artifacts)
                   = Len(DeclaredArtifacts)
       /\ (CompletedDone /\ patches = <<>>) =>
            /\ ErrKind(completedResult) = "ArtifactTransferError"
            /\ terminal = "Failed"
            /\ Len(uploads) = Len(uploaded_artifacts) + 1
            /\ uploaded_artifacts = RefsOf(SubSeq(uploads, 1, Len(uploads) - 1))

\* C5 witness: two artifacts were uploaded and the patch was applied.
C5_Witness ==
    /\ CompletedDone
    /\ ResultDeclaresArtifacts
    /\ podState.artifact_manager # None
    /\ Len(uploads) = 2
    /\ Len(uploaded_artifacts) = 2
    /\ completedResult = Some(Complete_Ok)

\* Initializing::next has returned.
InitializingDone == initResult # None

\* The names of the artifacts ds.
Names(ds) == {ds[i].name : i \in 1..Len(ds)}

\* C6: with artifacts declared and an artifact manager constructed,
\* Initializing downloads the artifacts one at a time in list order, all of
\* them before any init step; at the first failed download no further
\* download is made, no init step is started, Starting is not reached and
\* the transition completes with failure.
C6_DownloadsSequential ==
    (/\ invocation # None
     /\ podState.artifact_manager # None)
    => LET artifacts == invocation[1].artifacts
           n == Cardinality(pod_working_dir.files)
       IN
       /\ Len(artifacts) > 0
       /\ downloads # <<>>
       /\ IsPrefix(downloads, artifacts)
       /\ n <= Len(downloads)
       /\ Len(downloads) <= n + 1
       /\ pod_working_dir.files = Names(SubSeq(downloads, 1, n))
       /\ pc = "init_download" =>
            /\ Len(downloads) = n + 1
            /\ started = <<>>
            /\ ~InitializingDone
       /\ (started # <<>> \/ initResult = Some(Next_Starting)) =>
            /\ downloads = artifacts
            /\ n = Len(artifacts)
       /\ (pc # "init_download" /\ Len(downloads) = n + 1) =>
            /\ pc = "done"
            /\ ErrKind(initResult) = "ArtifactTransferError"
            /\ started = <<>>
            /\ stateSeq = <<"Initializing", "Error">>
            /\ terminal = "Failed"

\* C6 witness: of two artifacts the second download failed, with init
\* containers in the manifest.
C6_Witness ==
    /\ invocation # None
    /\ podState.artifact_manager # None
    /\ Len(invocation[1].artifacts) = 2
    /\ Len(downloads) = 2
    /\ pod_working_dir.files = {1}
    /\ Len(pod.init_containers) > 0
    /\ ErrKind(initResult) = "ArtifactTransferError"

\* The fetched record carries an input payload that does not deserialize.
BadInputPayload ==
    /\ config_map # None
    /\ DataGet(config_map, "input.json") # None
    /\ ~from_str(DataGet(config_map, "input.json")[1]).ok

\* C7: when the fetched record carries an input payload that does not
\* deserialize, Initializing completes with a deserialization error (that
\* of the payload, unless the telemetry blob before it was undecodable too)
\* and the workload ends in Error: the workflow name is not recorded,
\* nothing is written to the working directory, nothing is downloaded, no
\* init step is started and Starting is never reached.
C7_BadInputIsFatal ==
    BadInputPayload
    => /\ pc = "done"
       /\ initResult # None
       /\ initResult[1].outcome = "Complete"
       /\ initResult[1].state = "Err"
       /\ ErrKind(initResult) = "DeserializationError"
       /\ DecodeOpentelemetry(config_map).ok =>
              initResult[1].err.at = "input.json"
       /\ podState.workflow_name = None
       /\ podState.artifact_manager = None
       /\ pod_working_dir = [input |-> None, result |-> None, files |-> {},
                             path |-> "pod_working_dir"]
       /\ invocation = None
       /\ downloads = <<>>
       /\ started = <<>>
       /\ stateSeq = <<"Initializing", "Error">>
       /\ terminal = "Failed"

\* C7 witness: an undecodable payload beside a decodable telemetry blob and
\* a usable repository configuration, in a pod with two init containers.
C7_Witness ==
    /\ BadInputPayload
    /\ DataGet(config_map, "opentelemetry.json") = Some(Json("trace1"))
    /\ DataGet(config_map, "artifact-repo-config.json") = Some(Json("repo"))
    /\ Len(pod.init_containers) = 2
    /\ ErrKind(initResult) = "DeserializationError"

\* C8: the backoff strategy is reset right before each init step's driver
\* starts, so that the step's first delay is the initial delay, and once
\* more after the last step before the advance to Starting, also with no
\* init step at all: one reset per started step, plus one for the advance.
C8_BackoffResets ==
    /\ (pc = "init_wait" /\ cstate = "Waiting") =>
          NextDelay(podState.crash_loop_backoff_strategy) = InitialDelay
    /\ pc = "starting" =>
          NextDelay(podState.crash_loop_backoff_strategy) = InitialDelay
    /\ Len(resets) = Len(started)
                     + (IF initResult = Some(Next_Starting) THEN 1 ELSE 0)
    /\ initResult = Some(Next_Starting) => Len(resets) >= 1

\* C8 witness: the workload advanced to Starting after two init steps, and
\* the step before each of the last two resets had accumulated failures.
C8_Witness ==
    /\ pc = "starting"
    /\ Len(started) = 2
    /\ Len(resets) = 3
    /\ resets[2] > 0
    /\ resets[3] > 0

\* Initializing obtained an Invocation with artifacts, wrote it to the
\* working directory, and the fetched record has no repository configuration.
ArtifactsWithoutRepoConfig ==
    /\ invocation # None
    /\ Len(invocation[1].artifacts) > 0
    /\ pod_working_dir.input # None
    /\ DataGet(config_map, "artifact-repo-config.json") = None

\* C9: an Invocation with artifacts and no repository configuration does
\* not fail Initializing: nothing is downloaded, the artifact manager stays
\* absent, the init steps run in manifest order, the only failure left is
\* an init step's, and when all steps succeed the outcome is the advance to
\* Starting.
C9_NoRepoConfigIsNotFatal ==
    ArtifactsWithoutRepoConfig
    => /\ downloads = <<>>
       /\ pod_working_dir.files = {}
       /\ podState.artifact_manager = None
       /\ pc # "init_download"
       /\ IsPrefix(started, pod.init_containers)
       /\ InitializingDone =>
            \/ initResult = Some(Next_Starting)
            \/ /\ ErrKind(initResult) = "InitContainerFailed"
               /\ returned # <<>>
               /\ ~returned[Len(returned)].ok
       /\ (/\ Len(returned) = Len(pod.init_containers)
           /\ \A i \in 1..Len(returned) : returned[i].ok)
          => /\ initResult = Some(Next_Starting)
             /\ started = pod.init_containers
             /\ "Starting" \in {stateSeq[i] : i \in 1..Len(stateSeq)}

\* C9 witness: two artifacts, no repository configuration, two init steps
\* that succeeded, and the workload is in Starting.
C9_Witness ==
    /\ ArtifactsWithoutRepoConfig
    /\ Len(invocation[1].artifacts) = 2
    /\ Len(pod.init_containers) = 2
    /\ Len(returned) = 2
    /\ pc = "starting"

\* Scenario A: the fetched record's input is the Invocation of workflow wf1
\* with no artifacts, and the pod has no init container.
ScenarioA ==
    /\ config_map # None
    /\ DataGet(config_map, "input.json")
          = Some(Json([workflow_name |-> "wf1", artifacts |-> <<>>]))
    /\ DecodeOpentelemetry(config_map).ok
    /\ pod.init_containers = <<>>

\* C10: once an Invocation is obtained its workflow name is recorded, and
\* input.json holds the Invocation before any download and before any init
\* step; in scenario A the workflow name is wf1, no download and no nested
\* driver is run, and with input.json written the outcome is the advance to
\* Starting (the only failure left is the write of input.json).
C10_InvocationRecorded ==
    /\ invocation # None =>
          /\ podState.workflow_name = Some(invocation[1].workflow_name)
          /\ (downloads # <<>> \/ started # <<>> \/ initResult = Some(Next_Starting))
             => pod_working_dir.input = Some(to_string(invocation[1]))
    /\ (invocation = None /\ InitializingDone) =>
          /\ podState.workflow_name = None
          /\ pod_working_dir.input = None
    /\ ScenarioA =>
          /\ InitializingDone
          /\ podState.workflow_name = Some("wf1")
          /\ downloads = <<>>
          /\ started = <<>>
          /\ \/ /\ initResult = Some(Next_Starting)
                /\ pod_working_dir.input = Some(Json(
                       [workflow_name |-> "wf1", artifacts |-> <<>>]))
             \/ /\ ErrKind(initResult) = "WorkingDirectoryIOError"
                /\ pod_working_dir.input = None

\* C10 witness: scenario A, input.json written, the workload in Starting.
C10_Witness ==
    /\ ScenarioA
    /\ pc = "starting"
    /\ initResult = Some(Next_Starting)
    /\ pod_working_dir.input # None
    /\ podState.workflow_name = Some("wf1")

\* Initializing::next is past the answer of api.get.
ConfigFetched == pc \notin {"init_entry", "init_client", "init_fetch"}

\* Every init step returned success.
AllInitStepsSucceeded ==
    /\ Len(returned) = Len(pod.init_containers)
    /\ \A i \in 1..Len(returned) : returned[i].ok

\* C11: a missing configuration record (api.get yields no record) is not an
\* error: no telemetry context, no Invocation, no workflow name, no artifact
\* manager, no input.json and no download; the init steps still run in
\* manifest order, the only failure left is an init step's, and when all
\* succeed the outcome is the advance to Starting.
C11_NoRecordIsNotFatal ==
    (ConfigFetched /\ config_map = None)
    => /\ podState.parent_context = None
       /\ podState.workflow_name = None
       /\ podState.artifact_manager = None
       /\ invocation = None
       /\ pod_working_dir.input = None
       /\ pod_working_dir.files = {}
       /\ downloads = <<>>
       /\ IsPrefix(started, pod.init_containers)
       /\ InitializingDone =>
            \/ initResult = Some(Next_Starting)
            \/ /\ ErrKind(initResult) = "InitContainerFailed"
               /\ returned # <<>>
               /\ ~returned[Len(returned)].ok
       /\ AllInitStepsSucceeded =>
            /\ initResult = Some(Next_Starting)
            /\ started = pod.init_containers

\* C11 witness: api.get yielded no record although the record exists with
\* an input payload, two init steps succeeded, and Initializing advanced.
C11_Witness ==
    /\ ConfigFetched
    /\ config_map = None
    /\ configMap # None
    /\ DataGet(configMap, "input.json") # None
    /\ Len(pod.init_containers) = 2
    /\ AllInitStepsSucceeded
    /\ initResult = Some(Next_Starting)

\* The fetched record carries a repository configuration that cannot be
\* parsed, or from which no artifact manager can be constructed.
BadRepoConfig ==
    /\ ConfigFetched
    /\ DataGet(config_map, "artifact-repo-config.json") # None
    /\ LET r == from_str(DataGet(config_map, "artifact-repo-config.json")[1])
       IN ~r.ok \/ ~try_new(r.val).ok

\* The Invocation was obtained, written to the working directory, and
\* declares at least one artifact.
InvocationDeclaresArtifacts ==
    /\ invocation # None
    /\ pod_working_dir.input # None
    /\ Len(invocation[1].artifacts) > 0

\* Initializing failed on the repository configuration.
FailedOnRepoConfig ==
    /\ initResult # None
    /\ initResult[1].state = "Err"
    /\ \/ ErrKind(initResult) = "ArtifactConfigError"
       \/ /\ ErrKind(initResult) = "DeserializationError"
          /\ initResult[1].err.at = "artifact-repo-config.json"

\* The word Starting was reached by the pod state machine.
ReachedStarting == "Starting" \in {stateSeq[i] : i \in 1..Len(stateSeq)}

\* C12 as stated: an unusable repository configuration in the record is
\* fatal to Initializing whether or not the Invocation declares artifacts:
\* Initializing fails, no init step starts and Starting is not reached.
C12_BadRepoConfigAlwaysFatal ==
    BadRepoConfig
    => /\ initResult # None
       /\ initResult[1].state = "Err"
       /\ started = <<>>
       /\ ~ReachedStarting

\* C12: an unusable repository configuration is fatal to Initializing when
\* the Invocation obtained and written declares at least one artifact: the
\* outcome is the configuration's error, nothing is downloaded, no init
\* step starts and Starting is not reached. With no Invocation, or one that
\* declares no artifact, the configuration is never read, and with no
\* repository configuration in the record Initializing never fails on it.
C12_BadRepoConfigFatalWithArtifacts ==
    /\ (BadRepoConfig /\ InvocationDeclaresArtifacts)
       => /\ FailedOnRepoConfig
          /\ ErrKind(initResult) =
               IF from_str(DataGet(config_map,
                                   "artifact-repo-config.json")[1]).ok
               THEN "ArtifactConfigError" ELSE "DeserializationError"
          /\ podState.artifact_manager = None
          /\ downloads = <<>>
          /\ started = <<>>
          /\ ~ReachedStarting
    /\ (BadRepoConfig /\ ~InvocationDeclaresArtifacts)
       => /\ ~FailedOnRepoConfig
          /\ podState.artifact_manager = None
          /\ downloads = <<>>
    /\ (ConfigFetched /\ DataGet(config_map, "artifact-repo-config.json") = None)
       => ~FailedOnRepoConfig

\* C12 witness: two artifacts declared and a repository configuration that
\* parses but from which no artifact manager can be constructed; the pod
\* has init containers and Initializing failed before starting any.
C12_Witness ==
    /\ BadRepoConfig
    /\ InvocationDeclaresArtifacts
    /\ Len(invocation[1].artifacts) = 2
    /\ from_str(DataGet(config_map, "artifact-repo-config.json")[1]).ok
    /\ Len(pod.init_containers) = 2
    /\ ErrKind(initResult) = "ArtifactConfigError"
    /\ terminal = "Failed"

\* The fetched record carries a telemetry-context blob that cannot be
\* decoded.
BadTelemetryBlob ==
    /\ ConfigFetched
    /\ DataGet(config_map, "opentelemetry.json") # None
    /\ ~from_str(DataGet(config_map, "opentelemetry.json")[1]).ok

\* C20: with an undecodable telemetry-context blob in the fetched record,
\* Initializing completes with the deserialization failure and nothing
\* else was done: no parent context, no Invocation, no workflow name, no
\* artifact manager, nothing written to the working directory, no
\* download, no backoff reset, no init step, no Starting.
C20_BadTelemetryIsFatalFirst ==
    BadTelemetryBlob
    => /\ initResult = Some(Complete_Err(Error("DeserializationError",
                                               "opentelemetry.json")))
       /\ terminal = "Failed"
       /\ stateSeq = <<"Initializing", "Error">>
       /\ invocation = None
       /\ podState.parent_context = None
       /\ podState.workflow_name = None
       /\ podState.artifact_manager = None
       /\ pod_working_dir.input = None
       /\ pod_working_dir.files = {}
       /\ downloads = <<>>
       /\ resets = <<>>
       /\ started = <<>>

\* C20 witness: the blob is undecodable while the same record holds a
\* valid Invocation with two artifacts and a usable repository
\* configuration, and the pod has two init containers.
C20_Witness ==
    /\ BadTelemetryBlob
    /\ DeserializeInvocation(config_map).ok
    /\ DeserializeInvocation(config_map).val # None
    /\ Len(DeserializeInvocation(config_map).val[1].artifacts) = 2
    /\ MakeArtifactManager(config_map).val # None
    /\ Len(pod.init_containers) = 2
    /\ initResult # None

\* The Result the Completed state last sent in a patch.
PatchedResult == from_str(patches[Len(patches)].value).val

\* Initializing is past the record and obtained no Invocation, or one that
\* declares no artifact.
NoInputArtifacts ==
    /\ ConfigFetched
    /\ \/ invocation = None
       \/ Len(invocation[1].artifacts) = 0

\* C19: the pod state holds an artifact manager only if Initializing
\* obtained an Invocation declaring at least one artifact and the record
\* carried a usable repository configuration. With no Invocation, or one
\* declaring no artifact, the artifact manager is absent for good:
\* Completed uploads nothing and every patch it sends carries an empty
\* artifact list, whatever the Result declares and whatever repository
\* configuration the record holds.
C19_ManagerOnlyWithInputArtifacts ==
    /\ podState.artifact_manager # None
       => /\ invocation # None
          /\ Len(invocation[1].artifacts) > 0
          /\ DataGet(config_map, "artifact-repo-config.json") # None
          /\ LET r == from_str(DataGet(config_map,
                                       "artifact-repo-config.json")[1])
             IN /\ r.ok
                /\ try_new(r.val).ok
                /\ podState.artifact_manager = try_new(r.val).val
    /\ NoInputArtifacts
       => /\ podState.artifact_manager = None
          /\ downloads = <<>>
          /\ pc # "completed_upload"
          /\ uploads = <<>>
          /\ uploaded_artifacts = <<>>
          /\ Len(patches) <= 1
          /\ patches # <<>> => PatchedResult.artifacts = <<>>
          /\ (CompletedPastRead /\ ResultDeclaresArtifacts)
             => /\ result = Some([artifacts |-> <<>>])
                /\ (pc = "completed_patch" \/ CompletedDone)
                   => patches # <<>>

\* C19 witness: an Invocation with no artifact, a usable repository
\* configuration in the fetched record, a Result declaring two artifacts,
\* and Completed has succeeded.
C19_Witness ==
    /\ NoInputArtifacts
    /\ invocation # None
    /\ podState.workflow_name # None
    /\ MakeArtifactManager(config_map).val # None
    /\ ResultDeclaresArtifacts
    /\ Len(DeclaredArtifacts) = 2
    /\ CompletedDone
    /\ completedResult = Some(Complete_Ok)

\* The patch request of Completed returned, having reached the API server
\* of an existing record.
PatchReachedRecord ==
    /\ CompletedDone
    /\ patches # <<>>
    /\ configMap # None
    /\ ~(/\ ErrKind(completedResult) = "PatchError"
         /\ completedResult[1].err.at = "request")

\* C13: the patch of the record's result field is accepted, and Completed
\* succeeds, whether or not the record held the field before: once the
\* request has reached the server of an existing record, the outcome is
\* Complete(Ok) and the record holds the serialized Result.
C13_PatchAcceptedWithoutField ==
    PatchReachedRecord
    => /\ completedResult = Some(Complete_Ok)
       /\ terminal = "Succeeded"
       /\ DataGet(configMap, "result.json") = Some(patches[1].value)

\* The keys of the record other than the result field.
OtherKeys == Keys \ {"result.json"}

\* C14: the patch Completed built is idempotent on the record it is sent
\* to: whenever applying it once succeeds, applying it again succeeds and
\* yields the same record, the result field holds the serialized Result and
\* every other field is the one the record had; and on the record of a
\* successful Completed the patch is a no-op.
C14_PatchIsIdempotent ==
    patches # <<>>
    => LET p == patches[Len(patches)]
           once == ApplyPatch(configMap, p)
           twice == ApplyPatch(once.val, p)
       IN /\ once.ok
             => /\ twice.ok
                /\ twice.val = once.val
                /\ once.val[1]["result.json"] = Some(p.value)
                /\ \A k \in OtherKeys : once.val[1][k] = configMap[1][k]
          /\ (CompletedDone /\ completedResult = Some(Complete_Ok))
             => /\ once.ok
                /\ once.val = configMap

\* C14 witness: the patch of a Result with two uploaded artifacts was
\* applied to a record that holds a telemetry blob, an input payload and a
\* repository configuration.
C14_Witness ==
    /\ CompletedDone
    /\ completedResult = Some(Complete_Ok)
    /\ Len(uploaded_artifacts) = 2
    /\ \A k \in OtherKeys : DataGet(configMap, k) # None
    /\ DataGet(configMap, "result.json") = Some(patches[1].value)

\* The record holds the value of the patch Completed sent.
PatchApplied ==
    /\ patches # <<>>
    /\ DataGet(configMap, "result.json") = Some(patches[Len(patches)].value)

\* C17: a run of Completed ends in a "complete" outcome with the pod state
\* machine still in Completed, sends at most one patch request, and returns
\* success exactly when the patch was sent and applied; a failed patch
\* request is the terminal failure of the workload and no second request
\* is sent.
C17_CompletedCompletesOnce ==
    /\ Len(patches) <= 1
    /\ (pc \in {"completed_entry", "completed_upload", "completed_lock",
                "completed_client", "completed_patch"}
        \/ CompletedDone)
       => stateSeq[Len(stateSeq)] = "Completed"
    /\ CompletedDone
       => /\ completedResult[1].outcome = "Complete"
          /\ completedResult = Some(Complete_Ok) <=> PatchApplied
          /\ completedResult = Some(Complete_Ok) <=> terminal = "Succeeded"
          /\ (patches # <<>> /\ ~PatchApplied)
             => /\ ErrKind(completedResult) = "PatchError"
                /\ terminal = "Failed"
          /\ (patches = <<>>)
             => ErrKind(completedResult) \in {"WorkingDirectoryIOError",
                                              "ArtifactTransferError"}

\* C17 witness: two artifacts were uploaded, the one patch request did not
\* reach the server, and Completed ended in failure.
C17_Witness ==
    /\ CompletedDone
    /\ Len(uploaded_artifacts) = 2
    /\ Len(patches) = 1
    /\ ErrKind(completedResult) = "PatchError"
    /\ completedResult[1].err.at = "request"
    /\ DataGet(configMap, "result.json") # None
    /\ terminal = "Failed"

\* Where the pod task is suspended on an operation of Initializing or
\* Completed: the configuration fetch, a download, a nested init-step
\* driver, an upload, the patch request.
SuspendedOnIO ==
    pc \in {"init_fetch", "init_download", "init_wait", "completed_upload",
            "completed_patch"}

\* C15: the pod task holds the read guard of provider_state only between
\* the return of read() and the end of the block that copies the client: it
\* holds no guard while suspended on the fetch, a download, an init step,
\* an upload or the patch, nor once the transition has returned, so that a
\* task asking for the write lock is never kept waiting by the pod task's
\* in-flight operation.
C15_GuardNotHeldAcrossAwait ==
    /\ guard => pc \in {"init_client", "completed_client"}
    /\ ~(guard /\ writer)
    /\ SuspendedOnIO => ~guard
    /\ (SuspendedOnIO /\ ~writer) => ENABLED WriterAcquire

\* C15 witness: another task holds the write lock while the pod task is
\* suspended on an upload, after a download and an init step.
C15_Witness ==
    /\ writer
    /\ pc = "completed_upload"
    /\ downloads # <<>>
    /\ started # <<>>

\* The pod states entered whose status the driver publishes: all but the
\* terminal Error.
PublishedStates ==
    IF stateSeq[Len(stateSeq)] = "Error"
    THEN SubSeq(stateSeq, 1, Len(stateSeq) - 1)
    ELSE stateSeq

\* C16: one status publish is issued for every state entered, in order and
\* before any step of the state's transition; the one issued for
\* Initializing is (Running, "Initializing") and the one for Completed is
\* (Succeeded, "Completed"). Whether the record took a publish has no part
\* in the driver's progress: the record holds no status or one of those
\* issued, and the last one issued is always that of the state whose
\* transition runs.
C16_StatusPublishedPerState ==
    /\ Len(issued) = Len(PublishedStates)
    /\ \A i \in 1..Len(issued) :
          /\ PublishedStates[i] = "Initializing"
             => issued[i] = [phase |-> "Running", message |-> "Initializing"]
          /\ PublishedStates[i] = "Completed"
             => issued[i] = [phase |-> "Succeeded", message |-> "Completed"]
          /\ issued[i].message = PublishedStates[i]
    /\ pc \in {"init_entry", "init_client", "init_fetch", "init_download",
               "init_wait"}
       => issued = <<[phase |-> "Running", message |-> "Initializing"]>>
    /\ pc \in {"completed_entry", "completed_upload", "completed_lock",
               "completed_client", "completed_patch"}
       => issued[Len(issued)] = [phase |-> "Succeeded", message |-> "Completed"]
    /\ observed # None
       => \E i \in 1..Len(issued) : observed = Some(issued[i])

\* C16 witness: the record never took a status, the driver went through
\* the four states all the same and Completed succeeded.
C16_Witness ==
    /\ observed = None
    /\ Len(issued) = 4
    /\ stateSeq = <<"Initializing", "Starting", "Running", "Completed">>
    /\ CompletedDone
    /\ completedResult = Some(Complete_Ok)

\* The telemetry map decoded from the fetched record cm, if it holds one.
DecodedTelemetry(cm) ==
    IF DataGet(cm, "opentelemetry.json") # None
       /\ from_str(DataGet(cm, "opentelemetry.json")[1]).ok
    THEN Some(from_str(DataGet(cm, "opentelemetry.json")[1]).val)
    ELSE None

\* Step context c, built for the k-th init container by pod state ps over
\* working directory wd with fetched record cm, carries the telemetry
\* context of cm as the parent of its span, the same trace ps stores, the
\* key Init(name) of its container, and the run-context and the working
\* directory path of the pod.
StepContextOf(c, k, ps, wd, cm) ==
    /\ DecodedTelemetry(cm) # None
       => /\ c.parent_span.parent =
               Some([trace |-> DecodedTelemetry(cm)[1], span |-> "remote"])
          /\ ps.parent_context # None
          /\ ps.parent_context[1].trace = DecodedTelemetry(cm)[1]
    /\ DecodedTelemetry(cm) = None
       => /\ c.parent_span.parent = None
          /\ ps.parent_context = None
    /\ c.container_key = <<"Init", pod.init_containers[k]>>
    /\ c.run_context = ps.run_context
    /\ c.pod_working_dir = wd.path

\* C18: every step that builds a Step Context builds it for the next init
\* container of the manifest, with the telemetry context of the fetched
\* record as parent (the one the pod state stores), a key Init(name) no
\* earlier Step Context has, the pod's run-context and working directory
\* path, and the snapshot that is the latest of the record stream at that
\* moment.
C18_StepContextFromLatestSnapshot ==
    [][Len(contexts') = Len(contexts) + 1
       => LET k == Len(contexts')
              c == contexts'[k]
          IN /\ StepContextOf(c, k, podState', pod_working_dir', config_map')
             /\ \A j \in 1..(k - 1) :
                   contexts'[j].container_key # c.container_key
             /\ SubSeq(contexts', 1, k - 1) = contexts
             /\ c.pod = pod_rx']_vars

====
